---- MODULE Spec2Model ----
(***************************************************************************)
(* The `crates` command dispatcher (crates.py).                            *)
(*                                                                         *)
(* One dispatcher process runs at a time.  A process parses its arguments, *)
(* runs one handler and exits.  The only place a handler waits for its     *)
(* environment is input() inside confirm(): there the user types a line,   *)
(* character by character, and ends it with the enter key.  The filesystem *)
(* under crates/ outlives the processes; everything else is per process.   *)
(***************************************************************************)
EXTENDS Integers, Sequences, FiniteSets, TLC

VARIABLES
    fs,         \* the paths that exist under <root>/crates
    pc,         \* "idle": no dispatcher process runs; "input": one is blocked in input()
    args,       \* the parsed arguments of the running (or last) process
    stdin,      \* the characters typed so far on the line input() is reading
    printed,    \* the lines the process wrote with print()
    prompts,    \* the prompts the process wrote with input()
    spawned,    \* the subprocess.run calls of the process: [argv, returncode]
    deleted,    \* the shutil.rmtree calls of the process: the paths
    exit_code   \* None while the process runs, <<n>> once it called sys.exit(n)

vars == <<fs, pc, args, stdin, printed, prompts, spawned, deleted, exit_code>>

----------------------------------------------------------------------------
(* Bounds of the model. *)

\* how many crate names the invocations draw from
NumNames == 2
\* the external tools return a code in 0..MaxRet
MaxRet == 2
\* the longest line the user types at the prompt
MaxLen == 3

AllNames == <<"foo", "bar", "baz", "qux">>
Names == {AllNames[i] : i \in 1..NumNames}
RetCodes == 0..MaxRet
\* the keys the user may press at the prompt
Keys == {"y", "Y", "e", "E", "s", "S", "n"}

----------------------------------------------------------------------------
(* Python values. *)

\* None; an int n is <<n>>
None == <<>>

\* x or y
\* (None and 0 are falsy)
py_or(x, y) == IF x = None \/ x = <<0>> THEN y ELSE x

\* str.lower() on one character
lower_char(c) ==
    CASE c = "Y" -> "y"
      [] c = "E" -> "e"
      [] c = "S" -> "s"
      [] c = "N" -> "n"
      [] c = "O" -> "o"
      [] OTHER -> c

\* str.lower(); a typed line is a sequence of characters
lower(s) == [i \in 1..Len(s) |-> lower_char(s[i])]

\* the separator str(Path) joins the segments with
os_sep == "\\"

\* str(path): a path is the sequence of its segments
RECURSIVE str(_)
str(p) ==
    IF Len(p) = 0 THEN "."
    ELSE IF Len(p) = 1 THEN p[1]
    ELSE str(SubSeq(p, 1, Len(p) - 1)) \o os_sep \o p[Len(p)]

\* Path.joinpath
joinpath(p, seg) == Append(p, seg)

\* whether path p is q or an ancestor of q
IsPrefix(p, q) == Len(p) <= Len(q) /\ SubSeq(q, 1, Len(p)) = p

----------------------------------------------------------------------------
(* The filesystem. *)

root_dir == <<"workspace">>
crates_dir == joinpath(root_dir, "crates")

get_crates_path(subpath) == joinpath(crates_dir, subpath)

\* a faulty variant: the answer of the last process is remembered, so a path
\* that served a successful invocation is taken to exist still
path_exists_cached(fsys, p) ==
    IF pc = "idle" /\ exit_code = <<0>> /\ p = get_crates_path(args.name)
    THEN TRUE
    ELSE p \in fsys

\* Path.exists()
path_exists(fsys, p) == p \in fsys

\* shutil.rmtree(p): p and everything below it
rmtree(fsys, p) == {q \in fsys : ~IsPrefix(p, q)}

\* what a successful `cargo init` leaves on disk: the directory and its manifest
CrateTree(name) ==
    {get_crates_path(name), joinpath(get_crates_path(name), "Cargo.toml")}

\* the filesystem states: a manifest lies in a directory
FsStates ==
    {S \in SUBSET (UNION {CrateTree(n) : n \in Names}) :
        \A n \in Names :
            joinpath(get_crates_path(n), "Cargo.toml") \in S
                => get_crates_path(n) \in S}

----------------------------------------------------------------------------
(* What a handler does, as a function of the parsed arguments a, the       *)
(* filesystem fsys it finds, and what its environment e hands it:          *)
(* e.line, the line input() returns; e.returncode, the return code of the  *)
(* spawned process; e.created, the paths the spawned process creates.      *)

Effect(ret, pr, pm, sp, rm, fsys) ==
    [ret |-> ret, printed |-> pr, prompts |-> pm, spawned |-> sp,
     deleted |-> rm, fs |-> fsys]

\* subprocess.run(argv), awaited
run(argv, e) == [argv |-> argv, returncode |-> e.returncode]

\* the text input() writes before it reads
input_prompt(prompt) == prompt \o " [Yes/No]:"

\* a faulty variant: the .lower() is left out
confirm_no_lower(prompt, line) ==
    line \in {<<"y", "e", "s">>, <<"y">>}

\* confirm(prompt), given the line the user enters
confirm(prompt, line) ==
    LET user_input == lower(line)
    IN  user_input \in {<<"y", "e", "s">>, <<"y">>}

\* a faulty variant: the helper new() is called and then cargo is run again
new_command_twice(a, fsys, e) ==
    LET argv == <<"cargo", "init", "--" \o a.type, "crates\\" \o a.name>>
    IN  Effect(<<e.returncode>>, <<>>, <<>>, <<run(argv, e), run(argv, e)>>, <<>>,
               fsys \cup e.created)

new_command(a, fsys, e) ==
    LET argv == <<"cargo", "init", "--" \o a.type, "crates\\" \o a.name>>
    IN  Effect(<<e.returncode>>, <<>>, <<>>, <<run(argv, e)>>, <<>>,
               fsys \cup e.created)

\* a faulty variant: `confirm(...) or args.force`
rm_command_prompt_first(a, fsys, e) ==
    LET subpath == get_crates_path(a.name)
        prompt  == "Permanently delete " \o a.name \o "?"
    IN  IF ~path_exists(fsys, subpath)
        THEN Effect(<<1>>,
                    IF ~a.quiet THEN <<"Path does not exist.">> ELSE <<>>,
                    <<>>, <<>>, <<>>, fsys)
        ELSE IF confirm(prompt, e.line) \/ a.force
        THEN Effect(None,
                    IF ~a.quiet THEN <<a.name \o " was deleted.">> ELSE <<>>,
                    <<input_prompt(prompt)>>,
                    <<>>, <<subpath>>, rmtree(fsys, subpath))
        ELSE Effect(None, <<>>, <<input_prompt(prompt)>>, <<>>, <<>>, fsys)

\* a faulty variant: confirm is called and its result dropped
rm_command_ignore_answer(a, fsys, e) ==
    LET subpath == get_crates_path(a.name)
        prompt  == "Permanently delete " \o a.name \o "?"
    IN  IF ~path_exists(fsys, subpath)
        THEN Effect(<<1>>,
                    IF ~a.quiet THEN <<"Path does not exist.">> ELSE <<>>,
                    <<>>, <<>>, <<>>, fsys)
        ELSE Effect(None,
                    IF ~a.quiet THEN <<a.name \o " was deleted.">> ELSE <<>>,
                    IF a.force THEN <<>> ELSE <<input_prompt(prompt)>>,
                    <<>>, <<subpath>>, rmtree(fsys, subpath))

\* a faulty variant: the force flag skips the existence check
rm_command_force_skips_check(a, fsys, e) ==
    LET subpath == get_crates_path(a.name)
        prompt  == "Permanently delete " \o a.name \o "?"
    IN  IF ~a.force /\ ~path_exists(fsys, subpath)
        THEN Effect(<<1>>,
                    IF ~a.quiet THEN <<"Path does not exist.">> ELSE <<>>,
                    <<>>, <<>>, <<>>, fsys)
        ELSE IF a.force \/ confirm(prompt, e.line)
        THEN Effect(None,
                    IF ~a.quiet THEN <<a.name \o " was deleted.">> ELSE <<>>,
                    IF a.force THEN <<>> ELSE <<input_prompt(prompt)>>,
                    <<>>, <<subpath>>, rmtree(fsys, subpath))
        ELSE Effect(None, <<>>, <<input_prompt(prompt)>>, <<>>, <<>>, fsys)

\* `args.force or confirm(...)`: confirm, and so input(), is called only
\* when force is unset
rm_command(a, fsys, e) ==
    LET subpath == get_crates_path(a.name)
        prompt  == "Permanently delete " \o a.name \o "?"
    IN  IF ~path_exists(fsys, subpath)
        THEN Effect(<<1>>,
                    IF ~a.quiet THEN <<"Path does not exist.">> ELSE <<>>,
                    <<>>, <<>>, <<>>, fsys)
        ELSE IF a.force \/ confirm(prompt, e.line)
        THEN Effect(None,
                    IF ~a.quiet THEN <<a.name \o " was deleted.">> ELSE <<>>,
                    IF a.force THEN <<>> ELSE <<input_prompt(prompt)>>,
                    <<>>, <<subpath>>, rmtree(fsys, subpath))
        ELSE Effect(None, <<>>, <<input_prompt(prompt)>>, <<>>, <<>>, fsys)

\* a faulty variant: the return code is dropped, as open_terminal does
term_command_no_return(a, fsys, e) ==
    LET wt0 == IF ~a.new_window THEN <<"wt", "-w", "0">> ELSE <<"wt">>
        subpath == get_crates_path(a.name)
        wt_args == wt0 \o <<"-d", str(subpath)>> \o <<"-p", a.profile>>
    IN  Effect(None, <<>>, <<>>, <<run(wt_args, e)>>, <<>>,
               fsys \cup e.created)

term_command(a, fsys, e) ==
    LET wt0 == IF ~a.new_window THEN <<"wt", "-w", "0">> ELSE <<"wt">>
        subpath == get_crates_path(a.name)
        wt_args == wt0 \o <<"-d", str(subpath)>> \o <<"-p", a.profile>>
    IN  Effect(<<e.returncode>>, <<>>, <<>>, <<run(wt_args, e)>>, <<>>,
               fsys \cup e.created)

exists(fsys, name) ==
    LET subpath == get_crates_path(name)
    IN  path_exists(fsys, subpath)

\* a faulty variant: `return 1` sits inside `if not args.quiet`
exists_command_quiet_succeeds(a, fsys, e) ==
    IF exists(fsys, a.name)
    THEN Effect(None, IF ~a.quiet THEN <<"Exists.">> ELSE <<>>,
                <<>>, <<>>, <<>>, fsys)
    ELSE IF ~a.quiet
    THEN Effect(<<1>>, <<"Does not exist.">>, <<>>, <<>>, <<>>, fsys)
    ELSE Effect(None, <<>>, <<>>, <<>>, <<>>, fsys)

exists_command(a, fsys, e) ==
    IF exists(fsys, a.name)
    THEN Effect(None, IF ~a.quiet THEN <<"Exists.">> ELSE <<>>,
                <<>>, <<>>, <<>>, fsys)
    ELSE Effect(<<1>>, IF ~a.quiet THEN <<"Does not exist.">> ELSE <<>>,
                <<>>, <<>>, <<>>, fsys)

run_command(a, fsys, e) ==
    LET path == get_crates_path(a.name)
    IN  IF ~path_exists(fsys, path)
        THEN Effect(<<1>>, <<a.name \o " does not exist.">>, <<>>, <<>>, <<>>, fsys)
        ELSE LET man_path   == joinpath(path, "Cargo.toml")
                 cargo_args == <<"cargo", "run", "--release",
                                 "--manifest-path", str(man_path)>>
             IN  Effect(<<e.returncode>>, <<>>, <<>>, <<run(cargo_args, e)>>, <<>>,
                        fsys \cup e.created)

\* a faulty variant: debug builds with --release as run does
debug_command_release(a, fsys, e) == run_command(a, fsys, e)

debug_command(a, fsys, e) ==
    LET path == get_crates_path(a.name)
    IN  IF ~path_exists(fsys, path)
        THEN Effect(<<1>>, <<a.name \o " does not exist.">>, <<>>, <<>>, <<>>, fsys)
        ELSE LET man_path   == joinpath(path, "Cargo.toml")
                 cargo_args == <<"cargo", "run",
                                 "--manifest-path", str(man_path)>>
             IN  Effect(<<e.returncode>>, <<>>, <<>>, <<run(cargo_args, e)>>, <<>>,
                        fsys \cup e.created)

\* the keys of _commands
commands == {"new", "rm", "term", "exists", "run", "debug"}

\* main(args): look the handler up and call it
main(a, fsys, e) ==
    IF a.command \notin commands
    THEN Effect(<<1>>, <<"\"" \o a.command \o "\" command not implemented.">>,
                <<>>, <<>>, <<>>, fsys)
    ELSE CASE a.command = "new"    -> new_command(a, fsys, e)
           [] a.command = "rm"     -> rm_command(a, fsys, e)
           [] a.command = "term"   -> term_command(a, fsys, e)
           [] a.command = "exists" -> exists_command(a, fsys, e)
           [] a.command = "run"    -> run_command(a, fsys, e)
           [] a.command = "debug"  -> debug_command(a, fsys, e)

\* sys.exit(main(...) or 0)
sys_exit(ret) == py_or(ret, <<0>>)

----------------------------------------------------------------------------
(* The processes. *)

\* the namespace the argument parser hands to main
Args(command, quiet, name, type, force, new_window, profile) ==
    [command |-> command, quiet |-> quiet, name |-> name, type |-> type,
     force |-> force, new_window |-> new_window, profile |-> profile]

NoArgs == Args("", FALSE, "", "", FALSE, FALSE, "")

Env(line, returncode, created) ==
    [line |-> line, returncode |-> returncode, created |-> created]

Types == {"bin", "lib"}
Profiles == {"cmd", "PowerShell"}

Init ==
    /\ fs \in FsStates
    /\ pc = "idle"
    /\ args = NoArgs
    /\ stdin = <<>>
    /\ printed = <<>>
    /\ prompts = <<>>
    /\ spawned = <<>>
    /\ deleted = <<>>
    /\ exit_code = None

\* the handler returned r: the process leaves its effects and exits
Exit(a, r) ==
    /\ pc' = "idle"
    /\ args' = a
    /\ stdin' = <<>>
    /\ printed' = r.printed
    /\ prompts' = r.prompts
    /\ spawned' = r.spawned
    /\ deleted' = r.deleted
    /\ fs' = r.fs
    /\ exit_code' = sys_exit(r.ret)

\* a dispatcher process starts (no other one runs) with arguments a; it runs to its exit unless
\* its handler calls input(), where it blocks with the prompt written
Start(a, e) ==
    LET r == main(a, fs, e)
    IN  IF r.prompts # <<>>
        THEN /\ pc' = "input"
             /\ args' = a
             /\ stdin' = <<>>
             /\ printed' = <<>>
             /\ prompts' = r.prompts
             /\ spawned' = <<>>
             /\ deleted' = <<>>
             /\ exit_code' = None
             /\ fs' = fs
        ELSE Exit(a, r)

\* the user presses a key while input() reads
TypeKey ==
    /\ pc = "input"
    /\ Len(stdin) < MaxLen
    /\ \E k \in Keys : stdin' = Append(stdin, k)
    /\ UNCHANGED <<fs, pc, args, printed, prompts, spawned, deleted, exit_code>>

\* the user presses enter: input() returns the line and the handler goes on
Enter ==
    /\ pc = "input"
    /\ Exit(args, main(args, fs, Env(stdin, 0, {})))

crates_new ==
    /\ pc = "idle"
    /\ \E quiet \in BOOLEAN, type \in Types, name \in Names,
          returncode \in RetCodes, created \in BOOLEAN :
           Start(Args("new", quiet, name, type, FALSE, FALSE, ""),
                 Env(<<>>, returncode, IF created THEN CrateTree(name) ELSE {}))

crates_rm ==
    /\ pc = "idle"
    /\ \E quiet \in BOOLEAN, force \in BOOLEAN, name \in Names :
           Start(Args("rm", quiet, name, "", force, FALSE, ""), Env(<<>>, 0, {}))

crates_term ==
    /\ pc = "idle"
    /\ \E quiet \in BOOLEAN, new_window \in BOOLEAN, profile \in Profiles,
          name \in Names, returncode \in RetCodes :
           Start(Args("term", quiet, name, "", FALSE, new_window, profile),
                 Env(<<>>, returncode, {}))

crates_exists ==
    /\ pc = "idle"
    /\ \E quiet \in BOOLEAN, name \in Names :
           Start(Args("exists", quiet, name, "", FALSE, FALSE, ""), Env(<<>>, 0, {}))

crates_run ==
    /\ pc = "idle"
    /\ \E quiet \in BOOLEAN, name \in Names, returncode \in RetCodes :
           Start(Args("run", quiet, name, "", FALSE, FALSE, ""),
                 Env(<<>>, returncode, {}))

crates_debug ==
    /\ pc = "idle"
    /\ \E quiet \in BOOLEAN, name \in Names, returncode \in RetCodes :
           Start(Args("debug", quiet, name, "", FALSE, FALSE, ""),
                 Env(<<>>, returncode, {}))

\* main called with a command that _commands does not hold
crates_unknown ==
    /\ pc = "idle"
    /\ \E quiet \in BOOLEAN :
           Start(Args("build", quiet, "", "", FALSE, FALSE, ""), Env(<<>>, 0, {}))

Next ==
    \/ crates_new
    \/ crates_rm
    \/ crates_term
    \/ crates_exists
    \/ crates_run
    \/ crates_debug
    \/ crates_unknown
    \/ TypeKey
    \/ Enter

Spec == Init /\ [][Next]_vars

----------------------------------------------------------------------------
(* The claims.  A step that leaves pc = "idle" from pc = "idle" is a whole   *)
(* invocation; a step from pc = "input" to pc = "idle" is the rest of an     *)
(* `rm` after the user's answer.  In an action formula fs is the filesystem  *)
(* at the time of the call and the primed variables are the outcome.         *)

\* the directory crates/<n> of the workspace
CrateDir(n) == <<"workspace", "crates", n>>

\* the text of the path crates/<n>/Cargo.toml
ManifestText(n) ==
    "workspace" \o os_sep \o "crates" \o os_sep \o n \o os_sep \o "Cargo.toml"

\* the line is 'yes' or 'y' up to the case of its letters
Affirmative(line) ==
    \/ Len(line) = 1 /\ line[1] \in {"y", "Y"}
    \/ /\ Len(line) = 3
       /\ line[1] \in {"y", "Y"}
       /\ line[2] \in {"e", "E"}
       /\ line[3] \in {"s", "S"}

\* the external actions of the process: spawns and recursive deletes
ExternalActions == Len(spawned) + Len(deleted)

\* C1: `exists n` exits 0 if crates/<n> exists at the time of the call and 1
\* otherwise; the quiet flag decides only whether the status line is printed.
Thm_C1 ==
    [][(pc = "idle" /\ args'.command = "exists") =>
        /\ pc' = "idle"
        /\ exit_code' = IF CrateDir(args'.name) \in fs THEN <<0>> ELSE <<1>>
        /\ printed' = IF args'.quiet THEN <<>>
                      ELSE IF CrateDir(args'.name) \in fs
                           THEN <<"Exists.">> ELSE <<"Does not exist.">>
      ]_vars

Wit_C1 ==
    /\ args.command = "exists" /\ args.quiet
    /\ CrateDir(args.name) \in fs
    /\ exit_code = <<0>> /\ printed = <<>>

\* C2: `rm n` with the force flag on an existing crates/<n> deletes the whole
\* tree crates/<n> and never prompts, whatever the quiet flag.
Thm_C2 ==
    [][(/\ pc = "idle" /\ args'.command = "rm" /\ args'.force
        /\ CrateDir(args'.name) \in fs) =>
        /\ pc' = "idle"
        /\ prompts' = <<>>
        /\ deleted' = <<CrateDir(args'.name)>>
        /\ fs' = {q \in fs : ~IsPrefix(CrateDir(args'.name), q)}
      ]_vars

Wit_C2 ==
    /\ args.command = "rm" /\ args.force /\ args.quiet
    /\ deleted = <<CrateDir(args.name)>>
    /\ CrateDir(args.name) \notin fs

\* C3: `rm n` without the force flag on an existing crates/<n>, answered
\* negatively, changes nothing on disk, makes no delete call and prints no
\* 'was deleted' line.
Thm_C3 ==
    /\ [][(/\ pc = "idle" /\ args'.command = "rm" /\ ~args'.force
           /\ CrateDir(args'.name) \in fs) =>
           (pc' = "input" /\ fs' = fs /\ deleted' = <<>> /\ printed' = <<>>)
         ]_vars
    /\ [][(pc = "input" /\ pc' = "idle" /\ ~Affirmative(stdin)) =>
           (fs' = fs /\ deleted' = <<>> /\ printed' = <<>>)
         ]_vars

Wit_C3 ==
    /\ pc = "idle" /\ args.command = "rm" /\ ~args.force /\ ~args.quiet
    /\ prompts # <<>>
    /\ deleted = <<>> /\ printed = <<>>
    /\ CrateDir(args.name) \in fs

\* C4: `rm n` on a missing crates/<n> exits 1, deletes nothing, does not
\* prompt and leaves the disk as it was, whatever the force and quiet flags.
Thm_C4 ==
    [][(/\ pc = "idle" /\ args'.command = "rm"
        /\ CrateDir(args'.name) \notin fs) =>
        /\ pc' = "idle"
        /\ exit_code' = <<1>>
        /\ deleted' = <<>>
        /\ prompts' = <<>>
        /\ fs' = fs
      ]_vars

Wit_C4 ==
    /\ pc = "idle" /\ args.command = "rm" /\ args.force
    /\ exit_code = <<1>> /\ deleted = <<>>
    /\ CrateDir(args.name) \notin fs

\* C5: `run n` and `debug n` on a missing crates/<n> exit 1 and spawn nothing;
\* on an existing one `run` spawns cargo run --release --manifest-path
\* crates/<n>/Cargo.toml and `debug` the same without --release.
Thm_C5 ==
    [][(pc = "idle" /\ args'.command \in {"run", "debug"}) =>
        /\ pc' = "idle"
        /\ IF CrateDir(args'.name) \notin fs
           THEN exit_code' = <<1>> /\ spawned' = <<>>
           ELSE /\ Len(spawned') = 1
                /\ spawned'[1].argv =
                     IF args'.command = "run"
                     THEN <<"cargo", "run", "--release", "--manifest-path",
                            ManifestText(args'.name)>>
                     ELSE <<"cargo", "run", "--manifest-path",
                            ManifestText(args'.name)>>
      ]_vars

Wit_C5 ==
    /\ pc = "idle" /\ args.command = "debug"
    /\ CrateDir(args.name) \notin fs
    /\ exit_code = <<1>> /\ spawned = <<>>

\* C6: when a process was spawned (by new, term, run or debug) the exit code
\* is its return code; otherwise the exit code is 0 or 1, and 1 only for a
\* missing path or an unrecognized command.
Thm_C6 ==
    [][(pc' = "idle") =>
        IF spawned' # <<>>
        THEN /\ args'.command \in {"new", "term", "run", "debug"}
             /\ exit_code' = <<spawned'[Len(spawned')].returncode>>
        ELSE /\ exit_code' \in {<<0>>, <<1>>}
             /\ exit_code' = <<1>> =>
                  \/ args'.command \notin commands
                  \/ /\ args'.command \in {"rm", "exists", "run", "debug"}
                     /\ CrateDir(args'.name) \notin fs
      ]_vars

Wit_C6 ==
    /\ pc = "idle" /\ args.command = "term"
    /\ Len(spawned) = 1 /\ spawned[1].returncode = MaxRet
    /\ exit_code = <<MaxRet>>

\* C7: a missing crate path found by rm, exists, run or debug gives exit code
\* 1, prints nothing when quiet is set and prints a message when it is not.
CE_C7 ==
    [][(/\ pc = "idle" /\ args'.command \in {"rm", "exists", "run", "debug"}
        /\ CrateDir(args'.name) \notin fs) =>
        /\ exit_code' = <<1>>
        /\ args'.quiet => printed' = <<>>
        /\ ~args'.quiet => printed' # <<>>
      ]_vars

\* C8 as stated: every invocation of one of the six subcommands performs
\* exactly one external action.
CE_C8 ==
    (pc = "idle" /\ args.command \in commands) => ExternalActions = 1

\* C8 as amended: an invocation performs at most one external action: one for
\* new and term, for run and debug on an existing path, and for rm on an
\* existing path when forced or confirmed; none for exists, for a missing
\* path, and for rm when the confirmation is declined.
Thm_C8 ==
    /\ [][(pc = "idle" /\ pc' = "idle" /\ args'.command \in commands) =>
           Len(spawned') + Len(deleted') =
             IF args'.command \in {"new", "term"} THEN 1
             ELSE IF args'.command = "exists" THEN 0
             ELSE IF CrateDir(args'.name) \notin fs THEN 0
             ELSE 1
         ]_vars
    /\ [][(pc' = "input") => Len(spawned') + Len(deleted') = 0]_vars
    /\ [][(pc = "input" /\ pc' = "idle") =>
           Len(spawned') + Len(deleted') = IF Affirmative(stdin) THEN 1 ELSE 0
         ]_vars

Wit_C8 ==
    /\ pc = "idle" /\ args.command = "exists"
    /\ ExternalActions = 0

\* C9: the confirmation is affirmative exactly for 'yes' and 'y' in any case,
\* negative for every other line, the empty one included; after a negative
\* answer rm does nothing and the exit code is 0.
Thm_C9 ==
    [][(pc = "input" /\ pc' = "idle") =>
        /\ (deleted' = <<CrateDir(args.name)>>) <=> Affirmative(stdin)
        /\ ~Affirmative(stdin) =>
             (deleted' = <<>> /\ fs' = fs /\ exit_code' = <<0>>)
      ]_vars

Wit_C9 ==
    /\ pc = "idle" /\ args.command = "rm" /\ ~args.force
    /\ prompts # <<>>
    /\ deleted = <<CrateDir(args.name)>>
    /\ exit_code = <<0>>

\* C10: the outcome of exists, rm, run and debug follows from the existence of
\* crates/<n> at the time of the call alone: right after an rm that deleted
\* crates/<n> each of them exits 1 for n, and once a `new` has re-created
\* crates/<n>, `exists n` exits 0.
Thm_C10 ==
    [][(pc = "idle" /\ args'.command \in {"exists", "rm", "run", "debug"}) =>
        /\ CrateDir(args'.name) \notin fs => (pc' = "idle" /\ exit_code' = <<1>>)
        /\ (CrateDir(args'.name) \in fs /\ args'.command = "exists") =>
             exit_code' = <<0>>
        /\ (CrateDir(args'.name) \in fs /\ args'.command = "rm") =>
             exit_code' # <<1>>
        /\ (CrateDir(args'.name) \in fs /\ args'.command \in {"run", "debug"}) =>
             spawned' # <<>>
        /\ (args.command = "rm" /\ deleted # <<>> /\ args'.name = args.name) =>
             (pc' = "idle" /\ exit_code' = <<1>>)
        /\ (/\ args.command = "new" /\ spawned # <<>>
            /\ CrateDir(args.name) \in fs
            /\ args'.name = args.name /\ args'.command = "exists") =>
             exit_code' = <<0>>
      ]_vars

\* an rm has just deleted crates/<n>, and `exists n`, started now, exits 1
Wit_C10 ==
    /\ pc = "idle" /\ args.command = "rm" /\ deleted = <<CrateDir(args.name)>>
    /\ ENABLED (/\ pc = "idle"
                /\ Start(Args("exists", FALSE, args.name, "", FALSE, FALSE, ""),
                         Env(<<>>, 0, {}))
                /\ exit_code' = <<1>>)

====
